---------------------------- MODULE Spec2Model ----------------------------
(***************************************************************************)
(* emlop: the emerge.log event stream of src/parser.rs (new_hist and the   *)
(* per-line parse helpers, the timestamp and package filters, split_atom). *)
(*                                                                         *)
(* Strings are TLA+ strings over ASCII, so a byte offset of the Rust code  *)
(* is a character offset here; offsets are 0-based as in the source.       *)
(* Option<T> is a sequence of length at most one: None is <<>> and         *)
(* Some(x) is <<x>>.  i64 is a signed integer of IntBits bits.             *)
(***************************************************************************)
EXTENDS Integers, Sequences, FiniteSets, TLC

VARIABLES
    \* new_hist's arguments and the file it reads
    log,            \* what BufReader::lines() yields, one record per line
    min_ts, max_ts, \* Option<i64>
    show,           \* Show {merge, unmerge, sync, pkg, tot}
    search_str,     \* Option<&str>
    search_exact,   \* bool
    \* the producer thread
    pstate,         \* "running", "eof", "panic_slice" or "panic_send"
    curline,        \* the enumerate() index of the next line
    prev_t,
    warnings,       \* the warn!() records, in order
    \* the channel and its consumer
    chan,           \* events sent and not yet received
    rx,             \* the Receiver: "open", "dropped" or "ended" (recv gave None)
    received,       \* what the consumer has received, in order
    sent,           \* history: every event a send delivered to the channel
    \* a call of one of the pure functions
    pcall,          \* the function and its arguments
    pret            \* Option of its result: <<>> until it has returned

vars == <<log, min_ts, max_ts, show, search_str, search_exact, pstate, curline,
          prev_t, warnings, chan, rx, received, sent, pcall, pret>>

hist_vars == <<log, min_ts, max_ts, show, search_str, search_exact, pstate,
               curline, prev_t, warnings, chan, rx, received, sent>>

-----------------------------------------------------------------------------
(* Bounds of the model *)

\* width of the model's i64
IntBits == 5
\* longest log, in lines
MaxLines == 2
\* longest atom given to split_atom
MaxAtomLen == 7
\* longest search string, category and name given to the package filter
MaxSearchLen == 3
MaxPartLen == 2

-----------------------------------------------------------------------------
(* Option, strings and slices *)

None == <<>>
Some(x) == <<x>>

i64_MIN == -(2 ^ (IntBits - 1))
i64_MAX == 2 ^ (IntBits - 1) - 1

\* min.unwrap_or(d)
unwrap_or(o, d) == IF o = None THEN d ELSE o[1]

\* s.as_bytes()[i]
Byte(s, i) == SubSeq(s, i + 1, i + 1)
\* &s[a..b] and &s[a..]; a slice with a > b or b > s.len() panics
SliceOk(s, a, b) == a <= b /\ b <= Len(s)
Slice(s, a, b) == SubSeq(s, a + 1, b)
SliceFrom(s, a) == SubSeq(s, a + 1, Len(s))

Min(S) == CHOOSE m \in S : \A n \in S : m <= n

\* s.find(c): the offset of the first c in s
find(s, c) ==
    LET At == {i \in 0..(Len(s) - 1) : Byte(s, i) = c}
    IN  IF At = {} THEN None ELSE Some(Min(At))

contains(s, c) == find(s, c) # None
starts_with(s, p) == Len(p) <= Len(s) /\ Slice(s, 0, Len(p)) = p
ends_with(s, e) == Len(e) <= Len(s) /\ SliceFrom(s, Len(s) - Len(e)) = e

Digits == {"0", "1", "2", "3", "4", "5", "6", "7", "8", "9"}
is_ascii_digit(c) == c \in Digits
is_whitespace(c) == c \in {" ", "\t", "\n", "\r", "\f"}

\* every string over alphabet A of length at most n
RECURSIVE Strs(_, _)
Strs(A, n) ==
    IF n = 0 THEN {""}
    ELSE LET P == Strs(A, n - 1) IN P \cup {s \o c : s \in P, c \in A}

-----------------------------------------------------------------------------
(* split_atom *)

RECURSIVE split_atom_loop(_, _)
split_atom_loop(atom, start) ==
    LET f == find(SliceFrom(atom, start), "-")
    IN  IF f = None THEN None
        ELSE LET pos == f[1]
             IN  IF Len(atom) <= start + pos + 1 THEN None
                 ELSE IF is_ascii_digit(Byte(atom, start + pos + 1)) /\ pos > 0
                      THEN Some(<<Slice(atom, 0, start + pos),
                                  SliceFrom(atom, start + pos + 1)>>)
                      ELSE split_atom_loop(atom,
                                           start + (IF pos = 0 THEN 1 ELSE pos))

\* split_atom without the test of the byte after the `-`
split_atom_AnyDash(atom) ==
    LET f == find(atom, "-")
    IN  IF f = None \/ Len(atom) <= f[1] + 1 \/ f[1] = 0 THEN None
        ELSE Some(<<Slice(atom, 0, f[1]), SliceFrom(atom, f[1] + 1)>>)

split_atom(atom) == split_atom_loop(atom, 0)

-----------------------------------------------------------------------------
(* The filters *)

\* a filter that leaves out the two ends of the interval
filter_ts_Strict(min, max, n) ==
    n > unwrap_or(min, i64_MIN) /\ n < unwrap_or(max, i64_MAX)

\* the closure filter_ts_fn returns, applied to n
filter_ts_fn(min, max, n) ==
    LET mi == unwrap_or(min, i64_MIN)
        ma == unwrap_or(max, i64_MAX)
    IN  n >= mi /\ n <= ma

LowerStr == "abcdefghijklmnopqrstuvwxyz"
UpperStr == "ABCDEFGHIJKLMNOPQRSTUVWXYZ"

\* simple case folding of one ASCII character
FoldChar(c) ==
    LET u == find(UpperStr, c) IN IF u = None THEN c ELSE Byte(LowerStr, u[1])

RECURSIVE FoldStr(_)
FoldStr(s) ==
    IF s = "" THEN "" ELSE FoldChar(Byte(s, 0)) \o FoldStr(SliceFrom(s, 1))

\* Regex::is_match for the patterns of the model: literal characters, `.`, and
\* the assertions `^` and `$`; ci is RegexBuilder::case_insensitive.
\* Does pattern r from offset i match s at offset j?
RECURSIVE regex_match_at(_, _, _, _, _)
regex_match_at(r, i, s, j, ci) ==
    IF i = Len(r) THEN TRUE
    ELSE LET c == Byte(r, i)
         IN  CASE c = "^" -> j = 0 /\ regex_match_at(r, i + 1, s, j, ci)
               [] c = "$" -> j = Len(s) /\ regex_match_at(r, i + 1, s, j, ci)
               [] c = "." -> /\ j < Len(s)
                             /\ Byte(s, j) # "\n"
                             /\ regex_match_at(r, i + 1, s, j + 1, ci)
               [] OTHER   -> /\ j < Len(s)
                             /\ IF ci THEN FoldChar(c) = FoldChar(Byte(s, j))
                                      ELSE c = Byte(s, j)
                             /\ regex_match_at(r, i + 1, s, j + 1, ci)

regex_is_match(r, s, ci) == \E j \in 0..Len(s) : regex_match_at(r, 0, s, j, ci)

\* the groups of r[i..] are closed and none is closed that was not opened
RECURSIVE regex_groups_ok(_, _, _)
regex_groups_ok(r, i, depth) ==
    IF i >= Len(r) THEN depth = 0
    ELSE IF Byte(r, i) = "(" THEN regex_groups_ok(r, i + 1, depth + 1)
    ELSE IF Byte(r, i) = ")" THEN depth > 0 /\ regex_groups_ok(r, i + 1, depth - 1)
    ELSE regex_groups_ok(r, i + 1, depth)

\* a builder that accepts any pattern
regex_build_ok_Lenient(r) == TRUE

\* RegexBuilder::new(r).build() is Ok: of the syntax errors, the model has
\* the unclosed and the unopened group
regex_build_ok(r) == regex_groups_ok(r, 0, 0)

\* filter_pkg_fn returns Err: only the Re arm builds a regex
filter_pkg_fn_is_err(package, exact) ==
    package # None /\ ~exact /\ ~regex_build_ok(package[1])

\* filter_pkg_fn without the `/` before an exact name
filter_pkg_fn_EndsNoSlash(package, exact) ==
    IF package = None THEN [tag |-> "True"]
    ELSE LET search == package[1]
         IN  IF exact /\ contains(search, "/") THEN [tag |-> "Eq", e |-> search]
             ELSE IF exact THEN [tag |-> "Ends", e |-> search]
             ELSE [tag |-> "Re", r |-> search, ci |-> TRUE]

\* the FilterPkg that filter_pkg_fn builds
filter_pkg_fn(package, exact) ==
    IF package = None THEN [tag |-> "True"]
    ELSE LET search == package[1]
         IN  IF exact /\ contains(search, "/") THEN [tag |-> "Eq", e |-> search]
             ELSE IF exact THEN [tag |-> "Ends", e |-> "/" \o search]
             ELSE [tag |-> "Re", r |-> search, ci |-> TRUE]

\* the closure filter_pkg_fn returns, applied to s
filter_pkg(fp, s) ==
    CASE fp.tag = "True" -> TRUE
      [] fp.tag = "Eq"   -> fp.e = s
      [] fp.tag = "Ends" -> ends_with(s, fp.e)
      [] fp.tag = "Re"   -> regex_is_match(fp.r, s, fp.ci)

-----------------------------------------------------------------------------
(* Tokens and integers *)

\* str::trim_start
RECURSIVE trim_start(_)
trim_start(s) ==
    IF s # "" /\ is_whitespace(Byte(s, 0)) THEN trim_start(SliceFrom(s, 1)) ELSE s

\* str::split_ascii_whitespace, collected: the maximal runs of other characters
RECURSIVE split_ascii_whitespace(_)
split_ascii_whitespace(s) ==
    IF s = "" THEN <<>>
    ELSE IF is_whitespace(Byte(s, 0)) THEN split_ascii_whitespace(SliceFrom(s, 1))
    ELSE LET W == {i \in 0..(Len(s) - 1) : is_whitespace(Byte(s, i))}
             e == IF W = {} THEN Len(s) ELSE Min(W)
         IN  <<Slice(s, 0, e)>> \o split_ascii_whitespace(SliceFrom(s, e))

\* the token at 0-based index i of the iterator, as nth()/next() reach it
Tok(tokens, i) == IF i < Len(tokens) THEN Some(tokens[i + 1]) ELSE None

RECURSIVE DecVal(_)
DecVal(d) ==
    IF d = "" THEN 0
    ELSE 10 * DecVal(Slice(d, 0, Len(d) - 1))
            + find("0123456789", Byte(d, Len(d) - 1))[1]

\* str::parse::<i64>: an optional sign, then digits, in range
parse_i64(s) ==
    LET signed == s # "" /\ Byte(s, 0) \in {"+", "-"}
        d == IF signed THEN SliceFrom(s, 1) ELSE s
    IN  IF d = "" \/ ~(\A i \in 0..(Len(d) - 1) : is_ascii_digit(Byte(d, i)))
        THEN None
        ELSE LET n == IF Byte(s, 0) = "-" THEN -DecVal(d) ELSE DecVal(d)
             IN  IF n < i64_MIN \/ n > i64_MAX THEN None ELSE Some(n)

-----------------------------------------------------------------------------
(* Hist and the per-line parsers.  A parser returns Option<Hist>; the slices *)
(* that can panic have a predicate of their own.                             *)

ebuild(h) ==
    IF h.kind \in {"MergeStart", "MergeStop"} THEN Slice(h.key, 0, h.pos1 - 1)
    ELSE Slice(h.key, 0, h.pos - 1)
version(h) ==
    IF h.kind \in {"MergeStart", "MergeStop"} THEN Slice(h.key, h.pos1, h.pos2)
    ELSE SliceFrom(h.key, h.pos)
iter(h) == SliceFrom(h.key, h.pos2)

\* line.split_at(line.find(':')?), ts_str.parse(), the filter, rest[2..]
parse_ts_rest(line) == SliceFrom(line, find(line, ":")[1])
parse_ts_passes(line, min, max) ==
    /\ find(line, ":") # None
    /\ LET ts == parse_i64(Slice(line, 0, find(line, ":")[1]))
       IN  ts # None /\ filter_ts_fn(min, max, ts[1])

parse_ts_panics(line, min, max) ==
    parse_ts_passes(line, min, max) /\ Len(parse_ts_rest(line)) < 2

parse_ts(line, min, max) ==
    IF ~parse_ts_passes(line, min, max) THEN None
    ELSE Some(<<parse_i64(Slice(line, 0, find(line, ":")[1]))[1],
                trim_start(SliceFrom(parse_ts_rest(line), 2))>>)

\* merge_event with the two halves of iter in the other order
merge_event_IterSwapped(kind, ts, atom, total, current, fp) ==
    LET a == split_atom(atom)
    IN  IF a = None THEN None
        ELSE IF ~filter_pkg(fp, a[1][1]) THEN None
        ELSE LET pos1 == Len(a[1][1]) + 1
             IN  Some([kind |-> kind, ts |-> ts,
                       key |-> a[1][1] \o "-" \o a[1][2] \o current \o total,
                       pos1 |-> pos1, pos2 |-> pos1 + Len(a[1][2])])

\* format!("{}-{}{}{}", ebuild, version, total, current)
merge_event(kind, ts, atom, total, current, fp) ==
    LET a == split_atom(atom)
    IN  IF a = None THEN None
        ELSE IF ~filter_pkg(fp, a[1][1]) THEN None
        ELSE LET pos1 == Len(a[1][1]) + 1
             IN  Some([kind |-> kind, ts |-> ts,
                       key |-> a[1][1] \o "-" \o a[1][2] \o total \o current,
                       pos1 |-> pos1, pos2 |-> pos1 + Len(a[1][2])])

parse_start(enabled, ts, line, fp) ==
    IF ~enabled \/ ~starts_with(line, ">>> emer") THEN None
    ELSE LET tokens == split_ascii_whitespace(line)
             t3 == Tok(tokens, 2)
             t5 == Tok(tokens, 4)
             t6 == Tok(tokens, 5)
         IN  IF t3 = None \/ t5 = None \/ t6 = None THEN None
             ELSE merge_event("MergeStart", ts, t6[1], t5[1], SliceFrom(t3[1], 1), fp)

parse_stop(enabled, ts, line, fp) ==
    IF ~enabled \/ ~starts_with(line, "::: comp") THEN None
    ELSE LET tokens == split_ascii_whitespace(line)
             t4 == Tok(tokens, 3)
             t6 == Tok(tokens, 5)
             t7 == Tok(tokens, 6)
         IN  IF t4 = None \/ t6 = None \/ t7 = None THEN None
             ELSE merge_event("MergeStop", ts, t7[1], t6[1], SliceFrom(t4[1], 1), fp)

\* format!("{}-{}", ebuild, version)
unmerge_event(kind, ts, atom, fp) ==
    LET a == split_atom(atom)
    IN  IF a = None THEN None
        ELSE IF ~filter_pkg(fp, a[1][1]) THEN None
        ELSE Some([kind |-> kind, ts |-> ts, key |-> a[1][1] \o "-" \o a[1][2],
                   pos |-> Len(a[1][1]) + 1])

\* &t3[1..t3.len() - 1] of a one-character token
parse_unmergestart_panics(enabled, ts, line, fp) ==
    /\ enabled /\ starts_with(line, "=== Unmerging...")
    /\ Tok(split_ascii_whitespace(line), 2) # None
    /\ LET t3 == Tok(split_ascii_whitespace(line), 2)[1]
       IN  ~SliceOk(t3, 1, Len(t3) - 1)

parse_unmergestart(enabled, ts, line, fp) ==
    IF ~enabled \/ ~starts_with(line, "=== Unmerging...") THEN None
    ELSE LET t3 == Tok(split_ascii_whitespace(line), 2)
         IN  IF t3 = None THEN None
             ELSE unmerge_event("UnmergeStart", ts, Slice(t3[1], 1, Len(t3[1]) - 1), fp)

parse_unmergestop(enabled, ts, line, fp) ==
    IF ~enabled \/ ~starts_with(line, ">>> unmerge success") THEN None
    ELSE LET t4 == Tok(split_ascii_whitespace(line), 3)
         IN  IF t4 = None THEN None
             ELSE unmerge_event("UnmergeStop", ts, t4[1], fp)

parse_syncstart(enabled, ts, line) ==
    IF ~enabled \/ line # "=== sync" THEN None
    ELSE Some([kind |-> "SyncStart", ts |-> ts])

parse_syncstop(enabled, ts, line) ==
    IF ~enabled \/ ~starts_with(line, "=== Sync completed") THEN None
    ELSE Some([kind |-> "SyncStop", ts |-> ts])

show_merge_of(sh) == sh.merge \/ sh.pkg \/ sh.tot
show_unmerge_of(sh) == sh.unmerge \/ sh.pkg \/ sh.tot

\* the if / else if chain of the loop body: the first parser that finds something
\* a chain that hands the package filter to the sync parsers as well
found_of_SyncFiltered(sh, t, s, fp) ==
    LET r1 == parse_start(show_merge_of(sh), t, s, fp)
        r2 == parse_stop(show_merge_of(sh), t, s, fp)
        r3 == parse_unmergestart(show_unmerge_of(sh), t, s, fp)
        r4 == parse_unmergestop(show_unmerge_of(sh), t, s, fp)
        r5 == parse_syncstart(sh.sync /\ filter_pkg(fp, "sync"), t, s)
        r6 == parse_syncstop(sh.sync /\ filter_pkg(fp, "sync"), t, s)
    IN  IF r1 # None THEN r1
        ELSE IF r2 # None THEN r2
        ELSE IF r3 # None THEN r3
        ELSE IF r4 # None THEN r4
        ELSE IF r5 # None THEN r5
        ELSE r6

found_of(sh, t, s, fp) ==
    LET r1 == parse_start(show_merge_of(sh), t, s, fp)
        r2 == parse_stop(show_merge_of(sh), t, s, fp)
        r3 == parse_unmergestart(show_unmerge_of(sh), t, s, fp)
        r4 == parse_unmergestop(show_unmerge_of(sh), t, s, fp)
        r5 == parse_syncstart(sh.sync, t, s)
        r6 == parse_syncstop(sh.sync, t, s)
    IN  IF r1 # None THEN r1
        ELSE IF r2 # None THEN r2
        ELSE IF r3 # None THEN r3
        ELSE IF r4 # None THEN r4
        ELSE IF r5 # None THEN r5
        ELSE r6

\* the chain reaches parse_unmergestart and its slice panics
found_panics(sh, t, s, fp) ==
    /\ parse_start(show_merge_of(sh), t, s, fp) = None
    /\ parse_stop(show_merge_of(sh), t, s, fp) = None
    /\ parse_unmergestart_panics(show_unmerge_of(sh), t, s, fp)

-----------------------------------------------------------------------------
(* new_hist: the producer thread, the channel and its consumer.  The file is *)
(* read lazily: log holds the lines read so far, and each read draws the     *)
(* next line, or a read error, or the end of the file.                       *)

\* lines an emerge.log can hold
FileLines ==
    { "5: >>> emerge (1 of 2) a/b-1 to /",
      "12: >>> emerge (5 of 12) c/D-1.2 to /",
      "6: ::: completed emerge (1 of 2) a/b-1 to /",
      "7:  === Unmerging... (c/D-2)",
      "8: >>> unmerge success: c/D-2",
      "3: === sync",
      "4: === Sync completed with x",
      "5: *** exit",
      "x: === sync",
      "99: === sync",
      "garbage",
      "5:",
      "5: >>> emerge (1 of",
      "5: >>> emerge (1 of 2) a/b to /",
      "5:  === Unmerging... x" }

Sh(m, u, s, p, t) == [merge |-> m, unmerge |-> u, sync |-> s, pkg |-> p, tot |-> t]

Shows ==
    { Sh(FALSE, FALSE, FALSE, FALSE, FALSE), Sh(TRUE, FALSE, FALSE, FALSE, FALSE),
      Sh(FALSE, TRUE, FALSE, FALSE, FALSE), Sh(FALSE, FALSE, TRUE, FALSE, FALSE),
      Sh(FALSE, FALSE, FALSE, TRUE, FALSE), Sh(FALSE, FALSE, FALSE, FALSE, TRUE),
      Sh(TRUE, TRUE, TRUE, FALSE, FALSE) }

\* (min_ts, max_ts)
TsFilters == { <<Some(5), Some(7)>>, <<Some(i64_MIN), Some(4)>>, <<Some(8), None>> }

\* (search_str, search_exact)
PkgFilters == { <<Some("b"), TRUE>>, <<Some("c/d"), TRUE>>, <<Some("^c/d"), FALSE>> }

Arg(sh, mi, ma, str, exact) ==
    [show |-> sh, min_ts |-> mi, max_ts |-> ma, search_str |-> str,
     search_exact |-> exact]

\* the arguments of new_hist: every Show without a filter, every timestamp
\* filter and every package filter with the classes shown
Args ==
    {Arg(sh, None, None, None, FALSE) : sh \in Shows}
        \cup {Arg(Sh(TRUE, TRUE, TRUE, FALSE, FALSE), f[1], f[2], None, TRUE) :
                f \in TsFilters}
        \cup {Arg(Sh(TRUE, TRUE, FALSE, FALSE, FALSE), None, None, f[1], f[2]) :
                f \in PkgFilters}

\* new_hist has returned Ok(rx): the file is open and the thread spawned
Init ==
    /\ log = <<>>
    /\ \E a \in Args :
        /\ min_ts = a.min_ts /\ max_ts = a.max_ts /\ show = a.show
        /\ search_str = a.search_str /\ search_exact = a.search_exact
    /\ pstate = "running" /\ curline = 0 /\ prev_t = 0 /\ warnings = <<>>
    /\ chan = <<>> /\ rx = "open" /\ received = <<>> /\ sent = <<>>
    /\ pcall = [fn |-> "none"] /\ pret = None

args == <<min_ts, max_ts, show, search_str, search_exact>>

\* a thread that outlives the unwrap of a failed send
Reading_AfterSendFailure ==
    pstate \in {"running", "panic_send"} /\ curline < MaxLines

Reading == pstate = "running" /\ curline < MaxLines

\* the warning with a 1-based line number
Warned_OneBased(kind) == Append(warnings, [kind |-> kind, line |-> curline + 1])

\* warn!("{}:{}: ...", filename, curline, ...)
Warned(kind) == Append(warnings, [kind |-> kind, line |-> curline])

\* the clock-jump warning of a line with timestamp t
ClockChecked(t) == IF prev_t > t THEN Warned("clock") ELSE warnings

\* a channel that hands out the newest event first
Delivered_Lifo(q, item) == <<item>> \o q

\* a channel of capacity 1
is_full_Cap1(q) == Len(q) >= 1

\* unbounded(): the channel has no capacity, so it is never full and a send
\* never waits for the consumer
is_full(q) == FALSE

\* tx.send(found): the event joins the channel
Delivered(q, item) == Append(q, item)

\* a loop that breaks at the first failed read
ReadErr_Stops ==
    /\ Reading
    /\ log' = Append(log, [ok |-> FALSE, line |-> ""])
    /\ warnings' = Warned("read")
    /\ pstate' = "eof"
    /\ UNCHANGED <<args, curline, prev_t, chan, rx, received, sent, pcall, pret>>

\* Err(e): could be invalid UTF-8 or a system read error
ReadErr ==
    /\ Reading
    /\ log' = Append(log, [ok |-> FALSE, line |-> ""])
    /\ warnings' = Warned("read")
    /\ curline' = curline + 1
    /\ UNCHANGED <<args, pstate, prev_t, chan, rx, received, sent, pcall, pret>>

\* Ok(line): the body of the loop for one line.  A slice that panics, or the
\* unwrap of a failed send, ends the thread; a send to a full channel would
\* leave it waiting.
Line(l) ==
    /\ Reading
    /\ log' = Append(log, [ok |-> TRUE, line |-> l])
    /\ LET p == parse_ts(l, min_ts, max_ts)
       IN  IF parse_ts_panics(l, min_ts, max_ts)
           THEN /\ pstate' = "panic_slice"
                /\ UNCHANGED <<curline, prev_t, warnings, chan, sent>>
           ELSE IF p = None
           THEN /\ curline' = curline + 1
                /\ UNCHANGED <<pstate, prev_t, warnings, chan, sent>>
           ELSE LET t == p[1][1]
                    s == p[1][2]
                    fp == filter_pkg_fn(search_str, search_exact)
                    found == found_of(show, t, s, fp)
                IN  /\ warnings' = ClockChecked(t)
                    /\ prev_t' = t
                    /\ IF found_panics(show, t, s, fp)
                       THEN /\ pstate' = "panic_slice"
                            /\ UNCHANGED <<curline, chan, sent>>
                       ELSE IF found = None
                       THEN /\ curline' = curline + 1
                            /\ UNCHANGED <<pstate, chan, sent>>
                       ELSE IF rx = "dropped"
                       THEN /\ pstate' = "panic_send"
                            /\ UNCHANGED <<curline, chan, sent>>
                       ELSE IF is_full(chan)
                       THEN /\ pstate' = "blocked"
                            /\ UNCHANGED <<curline, chan, sent>>
                       ELSE /\ chan' = Delivered(chan, [line |-> curline, ev |-> found[1]])
                            /\ sent' = Append(sent, [line |-> curline, ev |-> found[1]])
                            /\ curline' = curline + 1
                            /\ UNCHANGED pstate
    /\ UNCHANGED <<args, rx, received, pcall, pret>>

\* lines() is exhausted: the thread ends and drops tx
ReadEof ==
    /\ pstate = "running"
    /\ pstate' = "eof"
    /\ UNCHANGED <<args, log, curline, prev_t, warnings, chan, rx, received,
                   sent, pcall, pret>>

\* the consumer takes the next event
Recv ==
    /\ rx = "open" /\ chan # <<>>
    /\ received' = Append(received, Head(chan))
    /\ chan' = Tail(chan)
    /\ UNCHANGED <<args, log, pstate, curline, prev_t, warnings, rx, sent,
                   pcall, pret>>

\* an end of stream seen as soon as the producer is gone
RecvNone_Early ==
    /\ rx = "open" /\ pstate # "running"
    /\ rx' = "ended"
    /\ UNCHANGED <<args, log, pstate, curline, prev_t, warnings, chan, received,
                   sent, pcall, pret>>

\* the channel is empty and disconnected: the consumer's iteration ends
RecvNone ==
    /\ rx = "open" /\ chan = <<>> /\ pstate # "running"
    /\ rx' = "ended"
    /\ UNCHANGED <<args, log, pstate, curline, prev_t, warnings, chan, received,
                   sent, pcall, pret>>

\* the consumer drops the Receiver; what the channel holds goes with it
DropRx ==
    /\ rx = "open"
    /\ rx' = "dropped"
    /\ chan' = <<>>
    /\ UNCHANGED <<args, log, pstate, curline, prev_t, warnings, received, sent,
                   pcall, pret>>

Next ==
    \/ ReadErr
    \/ \E l \in FileLines : Line(l)
    \/ ReadEof
    \/ Recv
    \/ RecvNone
    \/ DropRx

Spec == Init /\ [][Next]_vars

\* lines in the format emerge writes, with a timestamp and all their tokens
WellFormedLines ==
    { "5: >>> emerge (1 of 2) a/b-1 to /",
      "12: >>> emerge (5 of 12) c/D-1.2 to /",
      "6: ::: completed emerge (1 of 2) a/b-1 to /",
      "7:  === Unmerging... (c/D-2)",
      "8: >>> unmerge success: c/D-2",
      "3: === sync",
      "4: === Sync completed with x",
      "5: *** exit",
      "99: === sync" }

\* the producer's loop over a finite log of well-formed lines, every read Ok
ProducerStep == (\E l \in WellFormedLines : Line(l)) \/ ReadEof

\* a consumer that iterates over the Receiver until it ends
ConsumerStep == Recv \/ RecvNone

NextLive == ProducerStep \/ ConsumerStep

\* the file is finite, so the thread that reads it gets to its end, and the
\* consumer keeps receiving
SpecLive ==
    Init /\ [][NextLive]_vars /\ WF_vars(ReadEof) /\ WF_vars(ConsumerStep)

-----------------------------------------------------------------------------
(* new_hist from its call: the file is opened and the filters built before   *)
(* the thread is spawned                                                     *)

\* (search_str, search_exact) of the calls: patterns that build and that do not
NewSearches ==
    { <<None, FALSE>>, <<Some("b"), TRUE>>, <<Some("("), TRUE>>,
      <<Some("^c/d"), FALSE>>, <<Some("("), FALSE>>, <<Some("a("), FALSE>>,
      <<Some(")"), FALSE>> }

\* new_hist is called; can_open tells whether File::open succeeds
InitNew ==
    /\ log = <<>>
    /\ min_ts = None /\ max_ts = None
    /\ show = Sh(TRUE, TRUE, TRUE, FALSE, FALSE)
    /\ \E f \in NewSearches : search_str = f[1] /\ search_exact = f[2]
    /\ pstate = "none" /\ curline = 0 /\ prev_t = 0 /\ warnings = <<>>
    /\ chan = <<>> /\ rx = "none" /\ received = <<>> /\ sent = <<>>
    /\ pcall \in {[fn |-> "new_hist", can_open |-> b] : b \in BOOLEAN}
    /\ pret = None

\* new_hist: File::open(..)?, unbounded(), filter_pkg_fn(..)?, thread::spawn,
\* Ok(rx)
NewHist ==
    /\ pcall.fn = "new_hist" /\ pret = None
    /\ IF ~pcall.can_open
       THEN /\ pret' = Some("Err(Cannot open)")
            /\ UNCHANGED <<pstate, rx>>
       ELSE IF filter_pkg_fn_is_err(search_str, search_exact)
       THEN /\ pret' = Some("Err(regex)")
            /\ UNCHANGED <<pstate, rx>>
       ELSE /\ pret' = Some("Ok(rx)")
            /\ pstate' = "running"
            /\ rx' = "open"
    /\ UNCHANGED <<args, log, curline, prev_t, warnings, chan, received, sent,
                   pcall>>

NextNew == NewHist \/ Next

SpecNew == InitNew /\ [][NextNew]_vars

-----------------------------------------------------------------------------
(* Properties of the event stream *)

Lines(q) == [i \in 1..Len(q) |-> q[i].line]
Increasing(q) == \A i, j \in 1..Len(q) : i < j => q[i] < q[j]

\* C1: the consumer receives the events in file order: what it has received is
\* the beginning of what was sent, and an event of an earlier line comes before
\* an event of a later line, none of them twice.
C1_FileOrder ==
    /\ Len(received) <= Len(sent)
    /\ received = SubSeq(sent, 1, Len(received))
    /\ rx = "open" => received \o chan = sent
    /\ Increasing(Lines(sent))
    /\ Increasing(Lines(received))

\* two events received, of two lines
C1_Witness == Len(received) = 2 /\ received[1].line < received[2].line

InRange(ts) ==
    /\ IF min_ts = None THEN i64_MIN <= ts ELSE min_ts[1] <= ts
    /\ IF max_ts = None THEN ts <= i64_MAX ELSE ts <= max_ts[1]

\* the integer before the first `:` of a line, when there is one
TsOfLine(l) ==
    IF find(l, ":") = None THEN None ELSE parse_i64(Slice(l, 0, find(l, ":")[1]))

\* C2: no event with a timestamp outside [min_ts, max_ts] is emitted, and a
\* line whose timestamp is inside, the bounds included, passes the filter: when
\* something follows its `:`, it becomes the previous timestamp of the loop.
C2_TsFilterInclusive ==
    /\ \A i \in 1..Len(sent) : InRange(sent[i].ev.ts)
    /\ (log # <<>> /\ log[Len(log)].ok) =>
        LET l == log[Len(log)].line
            ts == TsOfLine(l)
        IN  (ts # None /\ Len(parse_ts_rest(l)) >= 2) =>
                IF InRange(ts[1]) THEN prev_t = ts[1]
                ELSE \A k \in 1..Len(sent) : sent[k].line # Len(log) - 1

\* events at both ends of the interval
C2_Witness ==
    /\ min_ts # None /\ max_ts # None /\ min_ts[1] < max_ts[1]
    /\ \E i, j \in 1..Len(sent) :
        sent[i].ev.ts = min_ts[1] /\ sent[j].ev.ts = max_ts[1]

ClassOf(h) ==
    CASE h.kind \in {"MergeStart", "MergeStop"} -> "merge"
      [] h.kind \in {"UnmergeStart", "UnmergeStop"} -> "unmerge"
      [] h.kind \in {"SyncStart", "SyncStop"} -> "sync"

ClassShown(c, sh) ==
    CASE c = "merge" -> sh.merge \/ sh.pkg \/ sh.tot
      [] c = "unmerge" -> sh.unmerge \/ sh.pkg \/ sh.tot
      [] c = "sync" -> sh.sync

Classes == {"merge", "unmerge", "sync"}

AllShows == [merge : BOOLEAN, unmerge : BOOLEAN, sync : BOOLEAN,
             pkg : BOOLEAN, tot : BOOLEAN]

\* the events a reader of the lines lg emits under Show sh and the filters of
\* this run, to a consumer that keeps its receiver
RECURSIVE EmittedFrom(_, _, _)
EmittedFrom(lg, n, sh) ==
    IF lg = <<>> THEN <<>>
    ELSE IF ~lg[1].ok THEN EmittedFrom(Tail(lg), n + 1, sh)
    ELSE IF parse_ts_panics(lg[1].line, min_ts, max_ts) THEN <<>>
    ELSE LET p == parse_ts(lg[1].line, min_ts, max_ts)
             fp == filter_pkg_fn(search_str, search_exact)
         IN  IF p = None THEN EmittedFrom(Tail(lg), n + 1, sh)
             ELSE IF found_panics(sh, p[1][1], p[1][2], fp) THEN <<>>
             ELSE IF found_of(sh, p[1][1], p[1][2], fp) = None
                  THEN EmittedFrom(Tail(lg), n + 1, sh)
                  ELSE <<[line |-> n, ev |-> found_of(sh, p[1][1], p[1][2], fp)[1]]>>
                           \o EmittedFrom(Tail(lg), n + 1, sh)

OfClasses(q, C) == SelectSeq(q, LAMBDA x : ClassOf(x.ev) \in C)

\* C4: an event is emitted only when its class is enabled, and enabling or
\* disabling one class leaves the events of the other classes as they are.
C4_ShowMask ==
    /\ \A i \in 1..Len(sent) : ClassShown(ClassOf(sent[i].ev), show)
    /\ (rx = "open" /\ pstate # "running") =>
        \A sh \in AllShows : \A c \in Classes :
            (\A d \in Classes \ {c} : ClassShown(d, sh) = ClassShown(d, show)) =>
                OfClasses(EmittedFrom(log, 0, sh), Classes \ {c})
                    = OfClasses(sent, Classes \ {c})

\* "<ts>: >>> emerge (<N> of <M>) <cat>/<name>-<ver> to <root>"
StartLine(ts, n, m, pkg, ver, root) ==
    ts \o ": >>> emerge (" \o n \o " of " \o m \o ") " \o pkg \o "-" \o ver
       \o " to " \o root

NoFilter == min_ts = None /\ max_ts = None /\ search_str = None

\* merge start lines, with the fields each is made of
StartForms ==
    {[line |-> StartLine(ts, n, m, pkg, ver, "/"), ts |-> DecVal(ts),
      pkg |-> pkg, ver |-> ver, iter |-> m \o ")" \o n, n |-> n, m |-> m] :
        ts \in {"5", "12"}, n \in {"1", "5"}, m \in {"2", "12"},
        pkg \in {"a/b", "c/D"}, ver \in {"1", "1.2"}}

\* C5: a merge start line read with merges enabled and no filter yields exactly
\* one event, a MergeStart with the line's timestamp, ebuild() <cat>/<name>,
\* version() <ver> and iter() <M>)<N>.
C5_MergeStart ==
    (ClassShown("merge", show) /\ NoFilter) =>
        \A i \in 1..curline : \A f \in StartForms :
            (log[i].ok /\ log[i].line = f.line) =>
                /\ Len(SelectSeq(sent, LAMBDA x : x.line = i - 1)) = 1
                /\ \A k \in 1..Len(sent) :
                    sent[k].line = i - 1 =>
                        /\ sent[k].ev.kind = "MergeStart"
                        /\ sent[k].ev.ts = f.ts
                        /\ ebuild(sent[k].ev) = f.pkg
                        /\ version(sent[k].ev) = f.ver
                        /\ iter(sent[k].ev) = f.iter

\* the line of scenario S1, with (5 of 12)
C5_Witness ==
    /\ NoFilter
    /\ \E k \in 1..Len(sent) :
        /\ log[sent[k].line + 1].line = StartLine("12", "5", "12", "c/D", "1.2", "/")
        /\ iter(sent[k].ev) = "12)5"

\* C8: no content of a line ends the producer: it skips a malformed line and
\* goes on with the next one.
C8_MalformedNeverFatal == pstate # "panic_slice"

\* a line without an integer before its first `:`
BadTs(l) == TsOfLine(l) = None

\* the lines of the file whose timestamp is not an integer
BadTsLines == {l \in FileLines : BadTs(l)}

\* a line of an enabled class whose tokens or atom are missing
BadToken(l, sh) ==
    /\ TsOfLine(l) # None
    /\ Len(SliceFrom(l, find(l, ":")[1])) >= 2
    /\ LET s == trim_start(SliceFrom(l, find(l, ":")[1] + 2))
           any == [tag |-> "True"]
       IN  \/ /\ ClassShown("merge", sh) /\ starts_with(s, ">>> emer")
              /\ parse_start(TRUE, 0, s, any) = None
           \/ /\ ClassShown("merge", sh) /\ starts_with(s, "::: comp")
              /\ parse_stop(TRUE, 0, s, any) = None
           \/ /\ ClassShown("unmerge", sh) /\ starts_with(s, "=== Unmerging...")
              /\ ~parse_unmergestart_panics(TRUE, 0, s, any)
              /\ parse_unmergestart(TRUE, 0, s, any) = None
           \/ /\ ClassShown("unmerge", sh) /\ starts_with(s, ">>> unmerge success")
              /\ parse_unmergestop(TRUE, 0, s, any) = None

WarnedAt(i, kinds) ==
    \E k \in 1..Len(warnings) : warnings[k].line = i /\ warnings[k].kind \in kinds

C10_StopsOnReadError ==
    \A i \in 1..Len(log) :
        ~log[i].ok =>
            /\ i = Len(log)
            /\ \A k \in 1..Len(sent) : sent[k].line < i - 1

\* C10, amended: a failed read is warned about and the producer goes on with
\* the next line: it keeps running, the channel stays as it is, and the line
\* index advances by one.
C10_ContinuesAfterReadError ==
    [][(Len(log') = Len(log) + 1 /\ ~log'[Len(log')].ok) =>
            /\ pstate' = "running"
            /\ curline' = curline + 1
            /\ chan' = chan /\ sent' = sent
            /\ warnings' = Append(warnings, [kind |-> "read", line |-> curline])]_vars

\* an event of a line that comes after a failed read
C10_Witness ==
    \E i \in 1..Len(log) : \E k \in 1..Len(sent) :
        ~log[i].ok /\ sent[k].line > i - 1

-----------------------------------------------------------------------------
(* The pure functions, called on their own *)

NoHist ==
    /\ log = <<>> /\ min_ts = None /\ max_ts = None
    /\ show = [merge |-> FALSE, unmerge |-> FALSE, sync |-> FALSE,
               pkg |-> FALSE, tot |-> FALSE]
    /\ search_str = None /\ search_exact = FALSE
    /\ pstate = "eof" /\ curline = 0 /\ prev_t = 0 /\ warnings = <<>>
    /\ chan = <<>> /\ rx = "ended" /\ received = <<>> /\ sent = <<>>

AtomAlphabet == {"a", "-", "1", "/"}

InitAtom ==
    /\ NoHist
    /\ pcall \in {[fn |-> "split_atom", atom |-> a] :
                    a \in Strs(AtomAlphabet, MaxAtomLen)}
    /\ pret = None

SplitAtomCall ==
    /\ pcall.fn = "split_atom"
    /\ pret = None
    /\ pret' = Some(split_atom(pcall.atom))
    /\ UNCHANGED <<hist_vars, pcall>>

NextAtom == SplitAtomCall

SpecAtom == InitAtom /\ [][NextAtom]_vars

\* the offsets of a `-` with a non-empty left side and an ASCII digit after it
SplitPoints(atom) ==
    {i \in 1..(Len(atom) - 2) :
        Byte(atom, i) = "-" /\ is_ascii_digit(Byte(atom, i + 1))}

AtomReturned == pcall.fn = "split_atom" /\ pret # None

\* C6: split_atom returns the split at the leftmost `-` that has an ASCII digit
\* after it and a non-empty left side, and fails only when there is no such `-`.
C6_LeftmostSplit ==
    AtomReturned =>
        LET P == SplitPoints(pcall.atom)
        IN  pret[1] = IF P = {} THEN None
                      ELSE Some(<<Slice(pcall.atom, 0, Min(P)),
                                  SliceFrom(pcall.atom, Min(P) + 1)>>)

LowerAZ == {"a", "b", "c", "d", "e", "f", "g", "h", "i", "j", "k", "l", "m",
            "n", "o", "p", "q", "r", "s", "t", "u", "v", "w", "x", "y", "z"}
UpperAZ == {"A", "B", "C", "D", "E", "F", "G", "H", "I", "J", "K", "L", "M",
            "N", "O", "P", "Q", "R", "S", "T", "U", "V", "W", "X", "Y", "Z"}

AllIn(s, A) == \A i \in 0..(Len(s) - 1) : Byte(s, i) \in A

\* ^[a-z0-9-]+/[a-zA-Z0-9_+-]+$
LegalPkg(s) ==
    \E k \in 1..(Len(s) - 2) :
        /\ Byte(s, k) = "/"
        /\ AllIn(Slice(s, 0, k), LowerAZ \cup Digits \cup {"-"})
        /\ AllIn(SliceFrom(s, k + 1),
                 LowerAZ \cup UpperAZ \cup Digits \cup {"_", "+", "-"})

\* ^[0-9][0-9a-z._-]*$
LegalVer(s) ==
    /\ Len(s) >= 1
    /\ is_ascii_digit(Byte(s, 0))
    /\ AllIn(s, Digits \cup LowerAZ \cup {".", "_", "-"})

\* the ways to read the atom as pkg + "-" + ver with a legal pair
LegalSplits(atom) ==
    {k \in 0..(Len(atom) - 1) :
        /\ Byte(atom, k) = "-"
        /\ LegalPkg(Slice(atom, 0, k))
        /\ LegalVer(SliceFrom(atom, k + 1))}

NoDashDigit(s) ==
    \A i \in 0..(Len(s) - 2) :
        Byte(s, i) = "-" => ~is_ascii_digit(Byte(s, i + 1))

-----------------------------------------------------------------------------
(* filter_pkg_fn on its own *)

SearchAlphabet == {"a", "A", "/", "."}
CategAlphabet == {"a", "b"}
NameAlphabet == {"a", "A"}

\* packages `category/name`
FilterPkgs ==
    {c \o "/" \o n : c \in Strs(CategAlphabet, MaxPartLen) \ {""},
                     n \in Strs(NameAlphabet, MaxPartLen) \ {""}}

InitFilter ==
    /\ NoHist
    /\ pcall \in {[fn |-> "filter_pkg", package |-> p, exact |-> e, s |-> s] :
                    p \in {None} \cup {Some(x) : x \in Strs(SearchAlphabet, MaxSearchLen)},
                    e \in BOOLEAN, s \in FilterPkgs}
    /\ pret = None

FilterPkgCall ==
    /\ pcall.fn = "filter_pkg"
    /\ pret = None
    /\ pret' = Some(filter_pkg(filter_pkg_fn(pcall.package, pcall.exact), pcall.s))
    /\ UNCHANGED <<hist_vars, pcall>>

NextFilter == FilterPkgCall

SpecFilter == InitFilter /\ [][NextFilter]_vars

\* the name of `category/name`
NamePart(s) == SliceFrom(s, find(s, "/")[1] + 1)

\* C3: no search accepts everything; exact with a `/` in the search accepts only
\* the package equal to the search; exact without `/` accepts only the packages
\* whose name equals the search, case-sensitively; non-exact accepts the
\* packages the search matches as a regex, letter case ignored.
C3_PackageFilter ==
    (pcall.fn = "filter_pkg" /\ pret # None) =>
        pret[1] =
            IF pcall.package = None THEN TRUE
            ELSE LET search == pcall.package[1]
                 IN  IF pcall.exact /\ contains(search, "/") THEN pcall.s = search
                     ELSE IF pcall.exact THEN NamePart(pcall.s) = search
                     ELSE regex_is_match(FoldStr(search), FoldStr(pcall.s), FALSE)

\* an exact search with `/` that is a proper suffix of the package is refused
C3_Witness ==
    /\ pcall.fn = "filter_pkg" /\ pret = Some(FALSE)
    /\ pcall.exact /\ pcall.package # None
    /\ contains(pcall.package[1], "/")
    /\ ends_with(pcall.s, pcall.package[1])

-----------------------------------------------------------------------------
(* Cancellation, the channel and the end of the stream *)

\* the line l, read with the arguments of this run, reaches a tx.send
YieldsEvent(l) ==
    /\ ~parse_ts_panics(l, min_ts, max_ts)
    /\ parse_ts(l, min_ts, max_ts) # None
    /\ LET p == parse_ts(l, min_ts, max_ts)
           fp == filter_pkg_fn(search_str, search_exact)
       IN  /\ ~found_panics(show, p[1][1], p[1][2], fp)
           /\ found_of(show, p[1][1], p[1][2], fp) # None

\* C11: once the consumer has dropped the Receiver, the first line that yields
\* an event makes the send fail and ends the producer: nothing is sent, the
\* failure only happens after a drop, and after it no line is read and
\* nothing changes in the producer.
C11_SendAfterDropEnds ==
    [][/\ (/\ rx = "dropped" /\ pstate = "running"
           /\ Len(log') = Len(log) + 1
           /\ log'[Len(log')].ok /\ YieldsEvent(log'[Len(log')].line))
              => (pstate' = "panic_send" /\ sent' = sent /\ chan' = chan)
       /\ (pstate' = "panic_send" /\ pstate # "panic_send") => rx = "dropped"
       /\ rx = "dropped" => (sent' = sent /\ chan' = <<>>)
       /\ pstate = "panic_send"
              => (/\ pstate' = pstate /\ log' = log /\ curline' = curline
                  /\ sent' = sent /\ warnings' = warnings)]_vars

\* the consumer is gone, a line without event was read, then a send failed
C11_Witness ==
    /\ pstate = "panic_send" /\ rx = "dropped"
    /\ Len(log) = 2 /\ curline = 1 /\ sent = <<>>
    /\ log[1].ok /\ ~YieldsEvent(log[1].line)

\* C12: the channel is unbounded: the producer never waits in a send, whatever
\* the number of events the channel holds, and the channel holds every event
\* sent and not yet received, however many.
C12_Unbounded ==
    /\ pstate # "blocked"
    /\ \A n \in 0..MaxLines : ~is_full([i \in 1..n |-> i])
    /\ Len(chan) <= Len(sent)
    /\ rx # "dropped" => chan = SubSeq(sent, Len(received) + 1, Len(sent))

\* the producer has read the whole file, sent an event for each line and
\* ended, and the consumer has taken no step
C12_Witness ==
    /\ pstate = "eof" /\ rx = "open" /\ received = <<>>
    /\ curline = MaxLines /\ Len(chan) = MaxLines /\ chan = sent

\* C13: with a finite log of well-formed lines, all read, the producer
\* eventually ends at the end of the file, and a consumer that keeps receiving
\* gets every event sent and eventually the end of the stream, which it never
\* sees while the producer runs or an event sent is undelivered.
C13_EndOfStream ==
    /\ <>(pstate = "eof")
    /\ <>[](rx = "ended" /\ received = sent)
    /\ [](pstate \in {"running", "eof"})
    /\ [](rx = "ended" => (pstate = "eof" /\ chan = <<>> /\ received = sent))

\* a whole file of events, all received before the end of the stream
C13_Witness ==
    /\ rx = "ended" /\ pstate = "eof"
    /\ curline = MaxLines /\ Len(received) = MaxLines /\ received = sent

-----------------------------------------------------------------------------
(* Errors of the construction *)

\* patterns the regex crate refuses
BadRegexes == {"(", "a(", ")"}

\* the file cannot be opened, or the search string is a regex that is refused
ConstructionFails ==
    \/ ~pcall.can_open
    \/ search_str # None /\ ~search_exact /\ search_str[1] \in BadRegexes

\* C14: when the file cannot be opened or a non-exact search string is not a
\* valid regex, new_hist returns an error and nothing else happens: no thread
\* runs, no channel exists, no line is read and no event is ever produced; and
\* it returns an error in no other case.
C14_ConstructionErrors ==
    /\ ConstructionFails =>
        /\ pret \in {None, Some("Err(Cannot open)"), Some("Err(regex)")}
        /\ pstate = "none" /\ rx = "none"
        /\ log = <<>> /\ sent = <<>> /\ chan = <<>> /\ received = <<>>
        /\ warnings = <<>>
    /\ ~ConstructionFails => pret \in {None, Some("Ok(rx)")}
    /\ pret = Some("Err(Cannot open)") => ~pcall.can_open
    /\ (pstate # "none" \/ rx # "none") => pret = Some("Ok(rx)")

\* a file that opens and a pattern that does not build
C14_Witness ==
    /\ pcall.can_open /\ ~search_exact /\ search_str = Some("(")
    /\ pret = Some("Err(regex)")

-----------------------------------------------------------------------------
(* date.rs: parse_date.  A UtcOffset is its whole seconds; a result is Ok    *)
(* with a Unix timestamp, or Err with a message; a panic is its own outcome. *)

Ok(v) == [tag |-> "Ok", val |-> v]
Err(m) == [tag |-> "Err", msg |-> m]
Panic == [tag |-> "Panic"]

Abs(n) == IF n < 0 THEN -n ELSE n
\* the division of Rust's integers, which rounds toward zero
DivT(a, b) == IF a < 0 THEN -((-a) \div b) ELSE a \div b
all_ascii_digit(s) == s # "" /\ \A i \in 0..(Len(s) - 1) : is_ascii_digit(Byte(s, i))

\* UtcOffset::whole_hours, minutes_past_hour, seconds_past_minute: the three
\* carry the sign of the offset
whole_hours(off) == DivT(off, 3600)
minutes_past_hour(off) == DivT(off - 3600 * whole_hours(off), 60)
seconds_past_minute(off) == off - 3600 * whole_hours(off) - 60 * minutes_past_hour(off)

\* UtcOffset::from_hms: the smaller components take the sign of the larger
from_hms(h, m, s) ==
    LET m2 == IF (h > 0 /\ m < 0) \/ (h < 0 /\ m > 0) THEN -m ELSE m
        s2 == IF \/ (h > 0 /\ s < 0) \/ (h < 0 /\ s > 0)
                 \/ (m2 > 0 /\ s < 0) \/ (m2 < 0 /\ s > 0)
              THEN -s ELSE s
    IN  3600 * h + 60 * m2 + s2

\* with_offset_hour(whole_hours), with_offset_minute(|minutes_past_hour|),
\* with_offset_second(|seconds_past_minute|): the offset the Parsed holds
parsed_offset(off) ==
    from_hms(whole_hours(off), Abs(minutes_past_hour(off)),
             Abs(seconds_past_minute(off)))

is_leap_year(y) == y % 4 = 0 /\ (y % 100 # 0 \/ y % 400 = 0)

days_in_month(y, m) ==
    IF m = 2 THEN (IF is_leap_year(y) THEN 29 ELSE 28)
    ELSE IF m \in {4, 6, 9, 11} THEN 30 ELSE 31

\* Date::from_calendar_date(y, m, d) is Ok
valid_date(y, m, d) ==
    /\ y >= -9999 /\ y <= 9999
    /\ m >= 1 /\ m <= 12
    /\ d >= 1 /\ d <= days_in_month(y, m)

\* days from 1970-01-01 to the date y-m-d
days_from_civil(y, m, d) ==
    LET y2 == IF m <= 2 THEN y - 1 ELSE y
        era == y2 \div 400
        yoe == y2 - era * 400
        doy == (153 * (IF m > 2 THEN m - 3 ELSE m + 9) + 2) \div 5 + d - 1
        doe == yoe * 365 + yoe \div 4 - yoe \div 100 + doy
    IN  era * 146097 + doe - 719468

\* the date, as <<year, month, day>>, z days after 1970-01-01
civil_from_days(z) ==
    LET z2 == z + 719468
        era == z2 \div 146097
        doe == z2 - era * 146097
        yoe == (doe - doe \div 1460 + doe \div 36524 - doe \div 146096) \div 365
        doy == doe - (365 * yoe + yoe \div 4 - yoe \div 100)
        mp == (5 * doy + 2) \div 153
        d == doy - (153 * mp + 2) \div 5 + 1
        m == IF mp < 10 THEN mp + 3 ELSE mp - 9
    IN  <<yoe + era * 400 + (IF m <= 2 THEN 1 ELSE 0), m, d>>

\* n ASCII digits of s at offset p, as Some(their value)
digits_at(s, p, n) ==
    IF p + n <= Len(s) /\ all_ascii_digit(Slice(s, p, p + n))
    THEN Some(DecVal(Slice(s, p, p + n))) ELSE None

literal_at(s, p, c) == p < Len(s) /\ Byte(s, p) = c

\* Optional(Compound([First([T, space]), Hour, ":", Minute,
\* Optional(Compound([":", Second]))])) at offset p: <<hour, minute, second,
\* the offset after what was taken>>, nothing being taken when it does not fit
time_at(s, p) ==
    LET h == digits_at(s, p + 1, 2)
        mi == digits_at(s, p + 4, 2)
        sec == digits_at(s, p + 7, 2)
    IN  IF /\ (literal_at(s, p, "T") \/ literal_at(s, p, " "))
           /\ h # None /\ h[1] < 24
           /\ literal_at(s, p + 3, ":")
           /\ mi # None /\ mi[1] < 60
        THEN IF literal_at(s, p + 6, ":") /\ sec # None /\ sec[1] < 60
             THEN <<h[1], mi[1], sec[1], p + 9>>
             ELSE <<h[1], mi[1], 0, p + 6>>
        ELSE <<0, 0, 0, p>>

\* parse_date_yyyymmdd: a year of four digits with an optional sign, month
\* and day of two digits, the optional time, nothing after it, and a date
\* that exists
parse_date_yyyymmdd(s, offset) ==
    LET signed == s # "" /\ Byte(s, 0) \in {"+", "-"}
        p == IF signed THEN 1 ELSE 0
        y == digits_at(s, p, 4)
        m == digits_at(s, p + 5, 2)
        d == digits_at(s, p + 8, 2)
    IN  IF \/ y = None \/ ~literal_at(s, p + 4, "-")
           \/ m = None \/ ~literal_at(s, p + 7, "-")
           \/ d = None
        THEN Err("bad absolute date")
        ELSE LET year == IF Byte(s, 0) = "-" THEN -y[1] ELSE y[1]
                 t == time_at(s, p + 10)
             IN  IF m[1] < 1 \/ m[1] > 12 \/ d[1] < 1 \/ d[1] > 31
                 THEN Err("bad absolute date")
                 ELSE IF t[4] # Len(s) THEN Err("Junk at end")
                 ELSE IF ~valid_date(year, m[1], d[1]) THEN Err("bad absolute date")
                 ELSE Ok(days_from_civil(year, m[1], d[1]) * 86400
                         + t[1] * 3600 + t[2] * 60 + t[3] - parsed_offset(offset))

i32_MAX == 2147483647

RECURSIVE trim_end(_)
trim_end(s) ==
    IF s # "" /\ is_whitespace(Byte(s, Len(s) - 1))
    THEN trim_end(Slice(s, 0, Len(s) - 1)) ELSE s

\* str::trim
trim(s) == trim_end(trim_start(s))

is_ascii_lowercase(c) == contains(LowerStr, c)
\* char::is_alphanumeric, on ASCII
is_alphanumeric(c) ==
    is_ascii_digit(c) \/ contains(LowerStr, c) \/ contains(UpperStr, c)

\* s.chars().all(|c| c.is_alphanumeric() || c == ' ' || c == ',')
legal_chars(s) ==
    \A i \in 0..(Len(s) - 1) :
        is_alphanumeric(Byte(s, i)) \/ Byte(s, i) \in {" ", ","}

\* the end of the run of digits (digit = TRUE) or of lowercase letters
\* that starts at offset i
RECURSIVE run_end(_, _, _)
run_end(s, i, digit) ==
    IF i < Len(s) /\ (IF digit THEN is_ascii_digit(Byte(s, i))
                               ELSE is_ascii_lowercase(Byte(s, i)))
    THEN run_end(s, i + 1, digit) ELSE i

\* Regex::new("([0-9]+|[a-z]+)").find_iter(s), from offset i: the runs of
\* digits and the runs of lowercase letters, whatever lies between them
RECURSIVE find_iter(_, _)
find_iter(s, i) ==
    IF i >= Len(s) THEN <<>>
    ELSE IF is_ascii_digit(Byte(s, i)) \/ is_ascii_lowercase(Byte(s, i))
    THEN LET e == run_end(s, i, is_ascii_digit(Byte(s, i)))
         IN  <<Slice(s, i, e)>> \o find_iter(s, e)
    ELSE find_iter(s, i + 1)

RECURSIVE strip_zeros(_)
strip_zeros(d) ==
    IF Len(d) > 1 /\ Byte(d, 0) = "0" THEN strip_zeros(SliceFrom(d, 1)) ELSE d

\* t.as_str().parse::<i32>() of a token of the regex: Some(value), or None
\* for letters and for a number above i32::MAX
parse_i32(tok) ==
    IF ~all_ascii_digit(tok) THEN None
    ELSE LET d == strip_zeros(tok)
         IN  IF Len(d) > 10 THEN None
             ELSE IF Len(d) < 10 THEN Some(DecVal(d))
             ELSE LET hi == DecVal(Slice(d, 0, 9))
                      lo == DecVal(SliceFrom(d, 9))
                  IN  IF hi > i32_MAX \div 10 \/ (hi = i32_MAX \div 10 /\ lo > i32_MAX % 10)
                      THEN None ELSE Some(10 * hi + lo)

\* an OffsetDateTime at UTC: days since 1970-01-01 and seconds of the day
DateTime(days, secs) == [days |-> days, secs |-> secs]
from_unix_timestamp(ts) == DateTime(ts \div 86400, ts % 86400)
unix_timestamp(dt) == dt.days * 86400 + dt.secs

\* the first day an OffsetDateTime can hold: -9999-01-01
MinDays == days_from_civil(-9999, 1, 1)

\* seconds of the units of fixed length; 0 for any other word
unit_seconds(u) ==
    IF u \in {"w", "week", "weeks"} THEN 604800
    ELSE IF u \in {"d", "day", "days"} THEN 86400
    ELSE IF u \in {"h", "hour", "hours"} THEN 3600
    ELSE IF u \in {"min", "mins", "minute", "minutes"} THEN 60
    ELSE IF u \in {"s", "sec", "secs", "second", "seconds"} THEN 1
    ELSE 0

\* now -= num * unit, for a unit of u seconds: Some(the new value), or None
\* when it is out of the range of OffsetDateTime, where the subtraction panics
sub_duration(dt, num, u) ==
    IF u = 604800
    THEN IF num > (dt.days - MinDays) \div 7 THEN None
         ELSE Some(DateTime(dt.days - 7 * num, dt.secs))
    ELSE LET per == 86400 \div u
             secs == dt.secs - (num % per) * u
             days == dt.days - num \div per - (IF secs < 0 THEN 1 ELSE 0)
         IN  IF days < MinDays THEN None
             ELSE Some(DateTime(days, IF secs < 0 THEN secs + 86400 ELSE secs))

\* now.replace_date(Date::from_calendar_date(y, m, now.day())?)
\* a date whose day is clamped to the length of the month
replace_date_Clamped(dt, y, m) ==
    LET d == civil_from_days(dt.days)[3]
    IN  IF valid_date(y, m, 1)
        THEN Some(DateTime(days_from_civil(y, m, Min({d, days_in_month(y, m)})),
                           dt.secs))
        ELSE None

replace_date(dt, y, m) ==
    LET d == civil_from_days(dt.days)[3]
    IN  IF valid_date(y, m, d)
        THEN Some(DateTime(days_from_civil(y, m, d), dt.secs)) ELSE None

\* the loop of parse_date_ago over the tokens from index i (0-based), with
\* the value of now so far
RECURSIVE parse_date_ago_loop(_, _, _)
parse_date_ago_loop(tokens, i, dt) ==
    IF i >= Len(tokens) THEN Ok(unix_timestamp(dt))
    ELSE LET n == parse_i32(tokens[i + 1])
             unit == unwrap_or(Tok(tokens, i + 1), "")
             ymd == civil_from_days(dt.days)
         IN  IF n = None THEN Err("invalid digit found in string")
             ELSE IF unit \in {"y", "year", "years"}
             THEN LET r == replace_date(dt, ymd[1] - n[1], ymd[2])
                  IN  IF r = None THEN Err("bad date")
                      ELSE parse_date_ago_loop(tokens, i + 2, r[1])
             ELSE IF unit \in {"m", "month", "months"}
             THEN LET total == ymd[1] * 12 + (ymd[2] - 1) - n[1]
                      r == replace_date(dt, total \div 12, (total % 12) + 1)
                  IN  IF r = None THEN Err("bad date")
                      ELSE parse_date_ago_loop(tokens, i + 2, r[1])
             ELSE IF unit_seconds(unit) # 0
             THEN LET r == sub_duration(dt, n[1], unit_seconds(unit))
                  IN  IF r = None THEN Panic
                      ELSE parse_date_ago_loop(tokens, i + 2, r[1])
             ELSE Err("bad span")

\* parse_date_ago, with the value of OffsetDateTime::now_utc() as now
parse_date_ago(s, now) ==
    IF ~legal_chars(s) THEN Err("Illegal char")
    ELSE LET tokens == find_iter(s, 0)
         IN  IF tokens = <<>> THEN Err("No token found")
             ELSE parse_date_ago_loop(tokens, 0, from_unix_timestamp(now))

\* the message of parse_date for s; s holds nothing that {:#?} escapes
help_message(s) == "Couldn't parse \"" \o s \o "\", check examples in --help"

\* parse_date without the trim
parse_date_NoTrim(s, offset, now) ==
    LET i == parse_i64(s)
        a == parse_date_yyyymmdd(s, offset)
        r == parse_date_ago(s, now)
    IN  IF i # None THEN Ok(i[1])
        ELSE IF a.tag = "Ok" THEN a
        ELSE IF r.tag = "Err" THEN Err(help_message(s)) ELSE r

\* parse_date: the integer, else the absolute date, else the relative date
parse_date(s, offset, now) ==
    LET t == trim(s)
        i == parse_i64(t)
        a == parse_date_yyyymmdd(t, offset)
        r == parse_date_ago(t, now)
    IN  IF i # None THEN Ok(i[1])
        ELSE IF a.tag = "Ok" THEN a
        ELSE IF r.tag = "Err" THEN Err(help_message(t)) ELSE r

-----------------------------------------------------------------------------
(* The calls of parse_date *)

\* longest run of whitespace around an input
MaxPad == 1
\* most pairs in a relative expression of several pairs
MaxPairs == 2

Pads == Strs({" ", "\t"}, MaxPad)

\* n.to_string()
RECURSIVE u_to_string(_)
u_to_string(n) ==
    IF n < 10 THEN Byte("0123456789", n)
    ELSE u_to_string(n \div 10) \o Byte("0123456789", n % 10)
i64_to_string(n) == IF n < 0 THEN "-" \o u_to_string(-n) ELSE u_to_string(n)

\* the decimal strings of the integers, with whitespace around: the string
\* and the integer
IntForms ==
    {[s |-> a \o i64_to_string(n) \o b, n |-> n] :
        n \in i64_MIN..i64_MAX, a \in Pads, b \in Pads}

DateYears == {"1970", "2018", "2020"}
DateMonths == {"02", "04", "12"}
DateDays == {"03", "29", "31"}
DateHours == {"01", "23"}
DateMinutes == {"01", "59"}
DateSeconds == {"01", "59"}

\* dates in the three forms, with T or a space, some of days that do not exist
DateForms ==
    {[y |-> y, m |-> m, d |-> d, sep |-> "", hh |-> "", mm |-> "", ss |-> ""] :
        y \in DateYears, m \in DateMonths, d \in DateDays}
    \cup {[y |-> y, m |-> m, d |-> d, sep |-> sep, hh |-> hh, mm |-> mm, ss |-> ss] :
            y \in DateYears, m \in DateMonths, d \in DateDays, sep \in {" ", "T"},
            hh \in DateHours, mm \in DateMinutes, ss \in DateSeconds \cup {""}}

\* the string of a date form
DateString(f) ==
    f.y \o "-" \o f.m \o "-" \o f.d
        \o (IF f.sep = "" THEN "" ELSE f.sep \o f.hh \o ":" \o f.mm)
        \o (IF f.ss = "" THEN "" ELSE ":" \o f.ss)

DateBases == {"2018-04-03", "2018-04-03 01:01", "2018-04-03T01:01:01"}
JunkBefore == {"junk", "+", "x", "0", "T", ","}
JunkAfter == {"junk", "Z", ":", "T", " 01", "+01:00", ".", ",", " x"}

\* dates with something before or after them, and dates with a field that
\* is not as the format has it
JunkDates ==
    {a \o b : a \in JunkBefore, b \in DateBases}
    \cup {b \o c : b \in DateBases, c \in JunkAfter}
    \cup {a \o b \o c : a \in {"junk"}, b \in DateBases, c \in {"junk"}}
    \cup { "2018-4-03", "2018-04-3", "18-04-03", "02018-04-03", "2018-13-03",
           "2018-00-03", "2018-04-00", "2018-04-32", "2018-04-03 24:00",
           "2018-04-03 01:60", "2018-04-03t01:01", "2018-04-03  01:01",
           "2018-04-03 1:01", "2018-04-03 01:1", "2018/04/03",
           "2018-04-03 01-01", "2018-04-03 01", "2018-04-03T",
           "2018 04 03", "2018-04-03 01:01:1" }

\* the spellings of the units of fixed length
FixedUnits ==
    { "w", "week", "weeks", "d", "day", "days", "h", "hour", "hours",
      "min", "mins", "minute", "minutes", "s", "sec", "secs", "second", "seconds" }

Counts == {"0", "1", "3", "45", "007"}

\* a relative expression and the seconds it spans
Span(str, secs) == [s |-> str, secs |-> secs]

\* one pair, the number and the unit together or apart
OnePairs ==
    {Span(c \o g \o u, DecVal(c) * unit_seconds(u)) :
        c \in Counts, g \in {"", " "}, u \in FixedUnits}

ShortPairs ==
    { Span("1w", 604800), Span("3 day", 3 * 86400), Span("1hours", 3600),
      Span("45sec", 45) }
PairSeps == {" ", ", ", ""}

\* expressions of 1..n short pairs
RECURSIVE PairSeqs(_)
PairSeqs(n) ==
    IF n <= 1 THEN ShortPairs
    ELSE LET P == PairSeqs(n - 1)
         IN  P \cup {Span(p.s \o sep \o q.s, p.secs + q.secs) :
                        p \in P, sep \in PairSeps, q \in ShortPairs}

\* counts above what the result or an i32 can hold
HugeSpans ==
    { "2147483647 weeks", "2147483647 d", "1 d 2147483647 h", "2147483648 s",
      "99999999999 min" }

\* expressions with the units of the calendar
CalendarSpans ==
    { "1 y", "1 year", "2 years", "1 m", "1 month", "2 months", "13 months",
      "1 year 2 months", "1 month 1 day", "1 day 1 month", "9 months 1 w" }

\* expressions that end with the word ago
AgoSpans ==
    {Span(p.s \o " ago", p.secs) : p \in ShortPairs}
    \cup { Span("1 hour ago", 3600), Span("10d ago", 10 * 86400),
           Span("1 hour, 3 days ago", 3600 + 3 * 86400) }

\* what is neither an integer, nor a date, nor pairs
OtherInputs ==
    { "", " ", "a while ago", "1 day 3 centuries", "152271000o", "1 day 3",
      "day", "day 1", "1 day!", "1.5 h", "1 dAY", "1 day X", "X", "1 Day",
      "1-2", "1 fortnight", "1 d 3", "3 d w", "now", "1 day-2 h", "1 d;2 h" }

Offsets == {0, 3600, -3600, -5400, -1800}

\* values of the clock: 2023-11-14T22:13:20Z and 2024-03-31T12:00:00Z
Nows == {1700000000, 1711886400}

\* counts of months and years, the words of the two units, and the values of
\* the clock they are subtracted from: those of Nows and 2024-02-29T08:30:00Z
CalendarCounts == {0, 1, 2, 3, 4, 11, 12, 13, 25}
MonthUnits == {"m", "month", "months"}
YearUnits == {"y", "year", "years"}
CalendarNows == Nows \cup {1709195400}

NoDate == [y |-> "", m |-> "", d |-> "", sep |-> "", hh |-> "", mm |-> "", ss |-> ""]

\* a call of parse_date(s, offset) when the clock is at now; kind, n and date
\* tell how s was made: the integer it writes, the seconds it spans, the
\* fields of its date
DateCall(s, offset, now, kind, n, date) ==
    [fn |-> "parse_date", s |-> s, offset |-> offset, now |-> now,
     kind |-> kind, n |-> n, date |-> date]

DateCalls ==
    {DateCall(f.s, o, 1700000000, "integer", f.n, NoDate) :
        f \in IntForms, o \in {0, -5400}}
    \cup {DateCall(a \o DateString(f) \o a, o, 1700000000, "date", 0, f) :
            f \in DateForms, a \in {"", " "}, o \in Offsets}
    \cup {DateCall(s, o, 1700000000, "junk date", 0, NoDate) :
            s \in JunkDates, o \in {0, 3600}}
    \cup {DateCall(a \o f.s \o a, o, n, "fixed spans", f.secs, NoDate) :
            f \in OnePairs \cup PairSeqs(MaxPairs), a \in {"", " "},
            o \in {0, 3600}, n \in Nows}
    \cup {DateCall(s, o, n, "huge spans", 0, NoDate) :
            s \in HugeSpans, o \in {0, 3600}, n \in Nows}
    \cup {DateCall(s, o, n, "calendar spans", 0, NoDate) :
            s \in CalendarSpans, o \in {0, 3600}, n \in Nows}
    \cup {DateCall(u_to_string(k) \o " " \o u, o, n, "months back", k, NoDate) :
            k \in CalendarCounts, u \in MonthUnits, o \in {0, 3600},
            n \in CalendarNows}
    \cup {DateCall(u_to_string(k) \o " " \o u, o, n, "years back", k, NoDate) :
            k \in CalendarCounts, u \in YearUnits, o \in {0, 3600},
            n \in CalendarNows}
    \cup {DateCall(f.s, o, n, "ago", f.secs, NoDate) :
            f \in AgoSpans, o \in {0, 3600}, n \in Nows}
    \cup {DateCall(s, o, n, "other", 0, NoDate) :
            s \in OtherInputs, o \in {0, 3600}, n \in Nows}

InitDate ==
    /\ NoHist
    /\ pcall \in DateCalls
    /\ pret = None

ParseDateCall ==
    /\ pcall.fn = "parse_date"
    /\ pret = None
    /\ pret' = Some(parse_date(pcall.s, pcall.offset, pcall.now))
    /\ UNCHANGED <<hist_vars, pcall>>

NextDate == ParseDateCall

SpecDate == InitDate /\ [][NextDate]_vars

\* parse_date has returned, or panicked
DateReturned == pcall.fn = "parse_date" /\ pret # None

\* C15: parse_date of the decimal string of an i64, with or without
\* whitespace around it, is that integer, whatever the offset.
C15_IntegerRoundTrip ==
    (DateReturned /\ pcall.kind = "integer") => pret[1] = Ok(pcall.n)

\* a negative integer between a space and a tab, at an offset other than UTC
C15_Witness ==
    /\ DateReturned /\ pcall.kind = "integer"
    /\ pcall.s = " -3\t" /\ pcall.n = -3 /\ pcall.offset = -5400
    /\ pret[1] = Ok(-3)

\* the fields of a date form name a day that exists
ExistingDate(f) == DecVal(f.d) <= days_in_month(DecVal(f.y), DecVal(f.m))

\* C16: for every offset and every valid date, with or without a time,
\* parse_date gives parse_date at UTC minus the whole seconds of the offset;
\* 2018-04-03 01:01:01 is 1522717261 at UTC and 1522713661 at +01:00.
C16_OffsetApplied ==
    /\ (DateReturned /\ pcall.kind = "date" /\ ExistingDate(pcall.date)) =>
        /\ pret[1].tag = "Ok"
        /\ parse_date(pcall.s, 0, pcall.now).tag = "Ok"
        /\ pret[1].val = parse_date(pcall.s, 0, pcall.now).val - pcall.offset
    /\ (DateReturned /\ pcall.s = "2018-04-03 01:01:01") =>
        /\ pcall.offset = 0 => pret[1] = Ok(1522717261)
        /\ pcall.offset = 3600 => pret[1] = Ok(1522713661)

\* the timestamp at UTC of the fields of a date form, a missing field being 0
FieldsTimestamp(f) ==
    days_from_civil(DecVal(f.y), DecVal(f.m), DecVal(f.d)) * 86400
        + DecVal(f.hh) * 3600 + DecVal(f.mm) * 60 + DecVal(f.ss)

\* parse_date has returned its one error message
HelpError ==
    /\ pret[1].tag = "Err"
    /\ starts_with(pret[1].msg, "Couldn't parse ")
    /\ ends_with(pret[1].msg, ", check examples in --help")

\* C17: the absolute form takes YYYY-MM-DD, YYYY-MM-DD HH:MM and
\* YYYY-MM-DD HH:MM:SS, with a space or a T, a missing time field being 0,
\* and nothing else: a date with something before or after it, or with a
\* field out of the format, is an error.
C17_DateForms ==
    DateReturned =>
        /\ (pcall.kind = "date" /\ ExistingDate(pcall.date) /\ pcall.offset = 0)
                => pret[1] = Ok(FieldsTimestamp(pcall.date))
        /\ pcall.kind = "junk date" => HelpError

\* C18: an expression of pairs with units of fixed length gives now minus the
\* seconds it spans, whatever the order of the pairs, what separates them and
\* the offset, and whatever the counts.
C18_FixedSpans ==
    (DateReturned /\ pcall.kind \in {"fixed spans", "huge spans"}) =>
        /\ pret[1].tag = "Ok"
        /\ pcall.kind = "fixed spans" => pret[1].val = pcall.now - pcall.n

\* C19: an input that is not an integer, not a date and not a sequence of
\* pairs of a number and a known unit is an error, with the one message that
\* points at the examples of --help.
C19_ErrorsElsewhere ==
    (DateReturned /\ pcall.kind \in {"other", "junk date"}) => HelpError

\* C20: pairs followed by the word ago parse to now minus what they span.
C20_AgoSuffix ==
    (DateReturned /\ pcall.kind = "ago") => pret[1] = Ok(pcall.now - pcall.n)

-----------------------------------------------------------------------------
\* Timespan (date.rs): the buckets of the statistics

\* the last day an OffsetDateTime can hold: 9999-12-31
MaxDays == days_from_civil(9999, 12, 31)

\* Date::from_calendar_date(y, m, d).ok(), as the days since 1970-01-01
from_calendar_date(y, m, d) ==
    IF valid_date(y, m, d) THEN Some(days_from_civil(y, m, d)) ELSE None

\* Date::checked_add(Duration::days(n)), on days since 1970-01-01
checked_add(days, n) ==
    IF days + n >= MinDays /\ days + n <= MaxDays THEN Some(days + n) ELSE None

\* Date::weekday(), as number_from_monday(): 1970-01-01 was a Thursday
weekday(days) == ((days + 3) % 7) + 1

\* a next Monday that may be the day itself
till_monday_SameDay(wd) == 8 - (IF wd = 1 THEN 8 ELSE wd)

\* days from a weekday to the next Monday
till_monday(wd) ==
    CASE wd = 1 -> 7
      [] wd = 2 -> 6
      [] wd = 3 -> 5
      [] wd = 4 -> 4
      [] wd = 5 -> 3
      [] wd = 6 -> 2
      [] wd = 7 -> 1

\* OffsetDateTime::from_unix_timestamp(ts).unwrap().to_offset(offset).date(),
\* as Some(days since 1970-01-01); None when an unwrap panics
local_days(ts, offset) ==
    LET utc == ts \div 86400
        days == (ts + offset) \div 86400
    IN  IF utc < MinDays \/ utc > MaxDays \/ days < MinDays \/ days > MaxDays
        THEN None ELSE Some(days)

\* Timespan::next(ts, offset)
next(span, ts, offset) ==
    LET ld == local_days(ts, offset)
        d == civil_from_days(ld[1])
        d2 == CASE span = "Year" -> from_calendar_date(d[1] + 1, 1, 1)
                [] span = "Month" ->
                    from_calendar_date(IF d[2] = 12 THEN d[1] + 1 ELSE d[1],
                                       (d[2] % 12) + 1, 1)
                [] span = "Week" -> checked_add(ld[1], till_monday(weekday(ld[1])))
                [] span = "Day" -> checked_add(ld[1], 1)
    IN  IF ld = None THEN Panic
        ELSE IF d2 = None THEN Panic
        ELSE Ok(d2[1] * 86400 - offset)

\* s padded with zeros on the left to w bytes
RECURSIVE pad_zero(_, _)
pad_zero(s, w) == IF Len(s) >= w THEN s ELSE pad_zero("0" \o s, w)

\* the [year] component: four digits, a sign before a negative year
format_year(y) ==
    IF y < 0 THEN "-" \o pad_zero(u_to_string(-y), 4)
    ELSE pad_zero(u_to_string(y), 4)

\* time::util::weeks_in_year(y)
weeks_in_year(y) ==
    LET wd == weekday(days_from_civil(y, 1, 1))
    IN  IF wd = 4 \/ (is_leap_year(y) /\ wd = 3) THEN 53 ELSE 52

\* Date::iso_week(), the value of the [week_number] component
iso_week(days) ==
    LET y == civil_from_days(days)[1]
        ordinal == days - days_from_civil(y, 1, 1) + 1
        w == (ordinal + 10 - weekday(days)) \div 7
    IN  IF w = 0 THEN weeks_in_year(y - 1)
        ELSE IF w = 53 /\ weeks_in_year(y) = 52 THEN 1
        ELSE w

\* Timespan::header(ts, offset)
header(span, ts, offset) ==
    LET ld == local_days(ts, offset)
        d == civil_from_days(ld[1])
        year == format_year(d[1])
        month == pad_zero(u_to_string(d[2]), 2)
        day == pad_zero(u_to_string(d[3]), 2)
        week == pad_zero(u_to_string(iso_week(ld[1])), 2)
    IN  IF ld = None THEN Panic
        ELSE CASE span = "Year" -> Ok(year \o " ")
               [] span = "Month" -> Ok(year \o "-" \o month \o " ")
               [] span = "Week" -> Ok(year \o "-" \o week \o " ")
               [] span = "Day" -> Ok(year \o "-" \o month \o "-" \o day \o " ")

Timespans == {"Year", "Month", "Week", "Day"}

\* the days of a turn of the year, from Saturday 2019-12-28 on
SpanRun == 11
SpanDays ==
    {days_from_civil(2019, 12, 28) + i : i \in 0..(SpanRun - 1)} \cup
    {days_from_civil(f[1], f[2], f[3]) :
        f \in {<<1969, 12, 31>>, <<1970, 1, 1>>, <<2000, 2, 29>>,
               <<2016, 1, 3>>, <<2018, 12, 31>>, <<2019, 1, 1>>,
               <<2019, 1, 30>>, <<2019, 1, 31>>, <<2020, 2, 28>>,
               <<2020, 2, 29>>, <<2020, 12, 31>>, <<2021, 1, 3>>,
               <<2021, 1, 4>>}}
SpanSecs == {0, 1, 45240, 86399}
SpanTimestamps == {d * 86400 + s : d \in SpanDays, s \in SpanSecs}

\* +00:00, +05:00, -10:30, +01:00, -00:30
SpanOffsets == {0, 18000, -37800, 3600, -1800}

SpanCalls ==
    [fn : {"next", "header"}, span : Timespans, ts : SpanTimestamps,
     offset : SpanOffsets]

InitSpan ==
    /\ NoHist
    /\ pcall \in SpanCalls
    /\ pret = None

NextCall ==
    /\ pcall.fn = "next"
    /\ pret = None
    /\ pret' = Some(next(pcall.span, pcall.ts, pcall.offset))
    /\ UNCHANGED <<hist_vars, pcall>>

HeaderCall ==
    /\ pcall.fn = "header"
    /\ pret = None
    /\ pret' = Some(header(pcall.span, pcall.ts, pcall.offset))
    /\ UNCHANGED <<hist_vars, pcall>>

NextSpan == NextCall \/ HeaderCall

SpecSpan == InitSpan /\ [][NextSpan]_vars

\* next has returned, or panicked
NextReturned == pcall.fn = "next" /\ pret # None

\* the local date, as <<year, month, day>>, and the local second of the day
LocalDate(t, offset) == civil_from_days((t + offset) \div 86400)
LocalSecond(t, offset) == (t + offset) % 86400

\* r is the first boundary of the span after ts: local midnight of January 1
\* of the next year, of the first day of the next month, of the next Monday,
\* of the next day
FirstBoundary(span, ts, offset, r) ==
    LET d == LocalDate(ts, offset)
        days == (ts + offset) \div 86400
        rd == LocalDate(r, offset)
        rdays == (r + offset) \div 86400
    IN  /\ LocalSecond(r, offset) = 0
        /\ span = "Year" => rd = <<d[1] + 1, 1, 1>>
        /\ span = "Month" =>
            rd = (IF d[2] = 12 THEN <<d[1] + 1, 1, 1>> ELSE <<d[1], d[2] + 1, 1>>)
        /\ span = "Week" =>
            /\ weekday(rdays) = 1
            /\ rdays - days \in 1..7
        /\ span = "Day" => rdays = days + 1

\* C21: next(ts, offset) is after ts and is the first boundary of the span
\* after ts, at local midnight in the offset; every t from ts up to the
\* boundary has the same next.
C21_NextBoundary ==
    NextReturned =>
        /\ pret[1].tag = "Ok"
        /\ LET r == pret[1].val
               between == {t \in SpanTimestamps : pcall.ts <= t /\ t < r}
                          \cup {pcall.ts, r - 1, pcall.ts + (r - pcall.ts) \div 2}
           IN  /\ r > pcall.ts
               /\ FirstBoundary(pcall.span, pcall.ts, pcall.offset, r)
               /\ \A t \in between :
                    next(pcall.span, t, pcall.offset) = Ok(r)
               /\ next(pcall.span, r, pcall.offset).val > r

\* the week after Monday 2019-12-30, in -10:30, ends on Monday 2020-01-06
C21_Witness ==
    /\ NextReturned
    /\ pcall.span = "Week"
    /\ pcall.offset = -37800
    /\ LocalDate(pcall.ts, pcall.offset) = <<2019, 12, 30>>
    /\ pret[1].tag = "Ok"
    /\ LocalDate(pret[1].val, pcall.offset) = <<2020, 1, 6>>


\* header has returned, or panicked
HeaderReturned == pcall.fn = "header" /\ pret # None

\* t1 and t2 are in the same Monday-to-Monday week of the offset
SameWeek(t1, t2, offset) ==
    ((t1 + offset) \div 86400 + 3) \div 7 = ((t2 + offset) \div 86400 + 3) \div 7

\* C27: the week header names the week: two timestamps have the same week
\* header exactly when they are in the same Monday-to-Monday week of the
\* offset, also when the week spans a change of year.
C27_WeekHeader ==
    (HeaderReturned /\ pcall.span = "Week") =>
        \A t \in SpanTimestamps :
            SameWeek(pcall.ts, t, pcall.offset)
                <=> header("Week", t, pcall.offset) = pret[1]

\* within one calendar year and away from its first and last week, the week
\* header does name the week
C27_InsideYear ==
    (HeaderReturned /\ pcall.span = "Week") =>
        \A t \in SpanTimestamps :
            LET d1 == LocalDate(pcall.ts, pcall.offset)
                d2 == LocalDate(t, pcall.offset)
                inside(d) == (d[2] = 1 => d[3] > 7) /\ (d[2] = 12 => d[3] < 25)
            IN  (d1[1] = d2[1] /\ inside(d1) /\ inside(d2)) =>
                    (SameWeek(pcall.ts, t, pcall.offset)
                        <=> header("Week", t, pcall.offset) = pret[1])

-----------------------------------------------------------------------------
\* Sync events and the package filter

\* the arguments of new_hist: every class shown, with and without a package
\* filter
SyncArgs ==
    {Arg(Sh(TRUE, TRUE, TRUE, FALSE, FALSE), None, None, f[1], f[2]) :
        f \in PkgFilters \cup {<<None, FALSE>>}}

\* new_hist has returned Ok(rx)
InitSync ==
    /\ log = <<>>
    /\ \E a \in SyncArgs :
        /\ min_ts = a.min_ts /\ max_ts = a.max_ts /\ show = a.show
        /\ search_str = a.search_str /\ search_exact = a.search_exact
    /\ pstate = "running" /\ curline = 0 /\ prev_t = 0 /\ warnings = <<>>
    /\ chan = <<>> /\ rx = "open" /\ received = <<>> /\ sent = <<>>
    /\ pcall = [fn |-> "none"] /\ pret = None

SpecSync == InitSync /\ [][Next]_vars

\* the events a reader of the lines lg emits under the package filter f, a
\* pair (search_str, search_exact), with the Show and the timestamp filter of
\* this run, to a consumer that keeps its receiver
RECURSIVE EmittedWith(_, _, _)
EmittedWith(lg, n, f) ==
    IF lg = <<>> THEN <<>>
    ELSE IF ~lg[1].ok THEN EmittedWith(Tail(lg), n + 1, f)
    ELSE IF parse_ts_panics(lg[1].line, min_ts, max_ts) THEN <<>>
    ELSE LET p == parse_ts(lg[1].line, min_ts, max_ts)
             fp == filter_pkg_fn(f[1], f[2])
         IN  IF p = None THEN EmittedWith(Tail(lg), n + 1, f)
             ELSE IF found_panics(show, p[1][1], p[1][2], fp) THEN <<>>
             ELSE IF found_of(show, p[1][1], p[1][2], fp) = None
                  THEN EmittedWith(Tail(lg), n + 1, f)
                  ELSE <<[line |-> n, ev |-> found_of(show, p[1][1], p[1][2], fp)[1]]>>
                           \o EmittedWith(Tail(lg), n + 1, f)

-----------------------------------------------------------------------------
\* The iteration marker of a merge event

\* the merge start line that sent[k] was parsed from is the form f
ParsedFrom(k, f) == log[sent[k].line + 1].line = f.line

-----------------------------------------------------------------------------
\* new_pretend: the reader of the output of emerge --pretend.  Its regex,
\* ^\[ebuild[^]]+\] (.+?)-([0-9][0-9a-z._-]*), is matched piece by piece.

\* [^]]+, greedy, from offset i: the offset after the run of bytes other than
\* `]`.  The run stops at a `]` or at the end, and only a `]` can follow it,
\* so giving bytes back never helps.
RECURSIVE not_bracket_run(_, _)
not_bracket_run(s, i) ==
    IF i < Len(s) /\ Byte(s, i) # "]" THEN not_bracket_run(s, i + 1) ELSE i

\* [0-9a-z._-]
version_class(c) ==
    is_ascii_digit(c) \/ is_ascii_lowercase(c) \/ c \in {".", "_", "-"}

\* [0-9a-z._-]*, greedy, from offset i: the offset after the run
RECURSIVE version_run(_, _)
version_run(s, i) ==
    IF i < Len(s) /\ version_class(Byte(s, i)) THEN version_run(s, i + 1) ELSE i

\* a group that takes as many bytes as it can
lazy_group_Greedy(s, a, e) ==
    LET Ends == {k \in e..(Len(s) - 2) :
                    Byte(s, k) = "-" /\ is_ascii_digit(Byte(s, k + 1))}
    IN  IF Ends = {} THEN None
        ELSE Some(CHOOSE k \in Ends : \A n \in Ends : n <= k)

\* (.+?) from offset a, followed by -[0-9]: the group grows one byte at a
\* time from e until a `-` and a digit follow; Some(offset of the `-`)
RECURSIVE lazy_group(_, _, _)
lazy_group(s, a, e) ==
    IF e + 1 >= Len(s) THEN None
    ELSE IF Byte(s, e) = "-" /\ is_ascii_digit(Byte(s, e + 1)) THEN Some(e)
    ELSE lazy_group(s, a, e + 1)

\* re.captures(line), then the Pretend made of groups 1 and 2
parse_pretend(line) ==
    IF ~starts_with(line, "[ebuild") THEN None
    ELSE LET j == not_bracket_run(line, 7)
         IN  IF j = 7 \/ ~starts_with(SliceFrom(line, j), "] ") THEN None
             ELSE LET e == lazy_group(line, j + 2, j + 3)
                  IN  IF e = None THEN None
                      ELSE Some([ebuild |-> Slice(line, j + 2, e[1]),
                                 version |-> Slice(line, e[1] + 1,
                                                   version_run(line, e[1] + 1))])

\* lines of the output of emerge --pretend
PretendLines ==
    { "[ebuild   R    ] sys-devel/gcc-6.4.0-r1:6.4.0::gentoo",
      "[ebuild  N     ] app-portage/emlop-0.1.0_p20180221 USE=x",
      "[ebuild     U  ] dev-db/postgresql-10.3 [10.2]",
      "[blocks B      ] <dev-lang/php-7.1",
      "",
      "These are the packages that would be merged, in order:",
      "[ebuild] a/b-1",
      " [ebuild  N ] a/b-1",
      "[ebuild  N ]a/b-1",
      "[ebuild  N ] a/b",
      "[ebuild  N ] a/b c-d-1A2",
      "[ebuild  U ] x-1-2",
      "[ebuild  U ] -1-2X",
      "[ebuild  N  a/b-1" }

\* new_pretend is called: nothing is read yet and out, held in pret, is empty
InitPretend ==
    /\ log = <<>> /\ min_ts = None /\ max_ts = None
    /\ show = Sh(FALSE, FALSE, FALSE, FALSE, FALSE)
    /\ search_str = None /\ search_exact = FALSE
    /\ pstate = "running" /\ curline = 0 /\ prev_t = 0 /\ warnings = <<>>
    /\ chan = <<>> /\ rx = "none" /\ received = <<>> /\ sent = <<>>
    /\ pcall = [fn |-> "new_pretend"] /\ pret = <<>>

PretendReading == pcall.fn = "new_pretend" /\ pstate = "running" /\ curline < MaxLines

\* Ok(line): a line that matches is pushed to out
PretendLine(l) ==
    /\ PretendReading
    /\ log' = Append(log, [ok |-> TRUE, line |-> l])
    /\ LET found == parse_pretend(l)
       IN  pret' = IF found = None THEN pret ELSE Append(pret, found[1])
    /\ curline' = curline + 1
    /\ UNCHANGED <<args, pstate, prev_t, warnings, chan, rx, received, sent, pcall>>

\* Err(e): a warning, and the loop goes on
PretendReadErr ==
    /\ PretendReading
    /\ log' = Append(log, [ok |-> FALSE, line |-> ""])
    /\ warnings' = Warned("read")
    /\ curline' = curline + 1
    /\ UNCHANGED <<args, pstate, prev_t, chan, rx, received, sent, pcall, pret>>

\* lines() is exhausted: out is returned
PretendEof ==
    /\ pcall.fn = "new_pretend" /\ pstate = "running"
    /\ pstate' = "eof"
    /\ UNCHANGED <<args, log, curline, prev_t, warnings, chan, rx, received,
                   sent, pcall, pret>>

NextPretend == (\E l \in PretendLines : PretendLine(l)) \/ PretendReadErr \/ PretendEof

SpecPretend == InitPretend /\ [][NextPretend]_vars

\* the offsets of the atom at which a `-` and a digit follow a non-empty prefix
DashDigitAt(atom) ==
    {i \in 1..(Len(atom) - 2) :
        Byte(atom, i) = "-" /\ is_ascii_digit(Byte(atom, i + 1))}

\* the longest prefix of s made of the characters 0-9 a-z . _ -
LongestVersion(s) ==
    LET Runs == {n \in 0..Len(s) :
                    \A i \in 0..(n - 1) :
                        contains("0123456789abcdefghijklmnopqrstuvwxyz._-", Byte(s, i))}
    IN  Slice(s, 0, CHOOSE n \in Runs : \A k \in Runs : k <= n)

\* the pair of a line `[ebuild<non-] characters>] <atom>`, if the line is one
ExpectedPair(line) ==
    LET close == find(line, "]")
        atom == SliceFrom(line, close[1] + 2)
        i == Min(DashDigitAt(atom))
    IN  IF /\ starts_with(line, "[ebuild")
           /\ close # None /\ close[1] > 7
           /\ starts_with(SliceFrom(line, close[1]), "] ")
           /\ DashDigitAt(atom) # {}
        THEN Some([ebuild |-> Slice(atom, 0, i),
                   version |-> LongestVersion(SliceFrom(atom, i + 1))])
        ELSE None

RECURSIVE ExpectedPairs(_)
ExpectedPairs(lg) ==
    IF lg = <<>> THEN <<>>
    ELSE IF lg[1].ok /\ ExpectedPair(lg[1].line) # None
         THEN ExpectedPair(lg[1].line) \o ExpectedPairs(Tail(lg))
         ELSE ExpectedPairs(Tail(lg))

\* C22: the pretend reader returns, in the order of the input, one pair for
\* each line `[ebuild<non-] characters>] <atom>` and nothing for any other
\* line; the package is the shortest non-empty prefix of the atom followed by
\* `-` and a digit, the version the longest run of 0-9 a-z . _ - after the `-`.
C22_PretendPairs ==
    pcall.fn = "new_pretend" =>
        /\ pret = ExpectedPairs(log)
        /\ pstate \in {"running", "eof"}

\* a blocker line skipped, then the pair of gcc
C22_Witness ==
    /\ pcall.fn = "new_pretend" /\ pstate = "eof"
    /\ Len(log) = 2
    /\ log[1].line = "[blocks B      ] <dev-lang/php-7.1"
    /\ pret = <<[ebuild |-> "sys-devel/gcc", version |-> "6.4.0-r1"]>>

-----------------------------------------------------------------------------
\* The keys of the merge events: a start line and a stop line parsed as a pair

\* the fields of a merge line: current and total number, package, version
MergeFields ==
    [n : {"1", "3"}, m : {"3", "12", "2"}, pkg : {"a/b", "c/D"},
     ver : {"1.2", "1.21"}]

\* the text of the lines after their timestamp
StartText(f) ==
    ">>> emerge (" \o f.n \o " of " \o f.m \o ") " \o f.pkg \o "-" \o f.ver
        \o " to /"
StopText(f) ==
    "::: completed emerge (" \o f.n \o " of " \o f.m \o ") " \o f.pkg \o "-"
        \o f.ver \o " to /"

\* a start line at timestamp 5 and a stop line at timestamp 9; pret holds
\* what has been parsed so far
InitPair ==
    /\ NoHist
    /\ \E a, b \in MergeFields :
        pcall = [fn |-> "parse_pair", start |-> a, stop |-> b]
    /\ pret = <<>>

ParseStartCall ==
    /\ pcall.fn = "parse_pair" /\ Len(pret) = 0
    /\ pret' = <<parse_start(TRUE, 5, StartText(pcall.start), filter_pkg_fn(None, FALSE))>>
    /\ UNCHANGED <<hist_vars, pcall>>

ParseStopCall ==
    /\ pcall.fn = "parse_pair" /\ Len(pret) = 1
    /\ pret' = Append(pret, parse_stop(TRUE, 9, StopText(pcall.stop),
                                       filter_pkg_fn(None, FALSE)))
    /\ UNCHANGED <<hist_vars, pcall>>

NextPair == ParseStartCall \/ ParseStopCall

SpecPair == InitPair /\ [][NextPair]_vars

\* both lines of the pair are parsed
PairParsed == pcall.fn = "parse_pair" /\ Len(pret) = 2

\* the two lines yield a MergeStart and a MergeStop; with the same fields the
\* events have the same pkg, version, iter, key and split positions
SamePairSameKey ==
    PairParsed =>
        /\ pret[1] # None /\ pret[1][1].kind = "MergeStart"
        /\ pret[2] # None /\ pret[2][1].kind = "MergeStop"
        /\ pcall.start = pcall.stop =>
            LET a == pret[1][1]
                b == pret[2][1]
            IN  /\ ebuild(a) = ebuild(b) /\ ebuild(a) = pcall.start.pkg
                /\ version(a) = version(b) /\ version(a) = pcall.start.ver
                /\ iter(a) = iter(b)
                /\ a.key = b.key /\ a.pos1 = b.pos1 /\ a.pos2 = b.pos2

\* C23: a start and a stop line with the same (N of M) and atom yield events
\* with the same pkg, version, iter, key and split positions, and lines that
\* differ in N, M, package or version yield different keys.
C23_KeyPairs ==
    /\ SamePairSameKey
    /\ (PairParsed /\ pcall.start # pcall.stop) => pret[1][1].key # pret[2][1].key

\* lines that differ yield events that differ in the key or in a split
\* position
C23_KeyAndPositions ==
    /\ SamePairSameKey
    /\ (PairParsed /\ pcall.start # pcall.stop) =>
        <<pret[1][1].key, pret[1][1].pos1, pret[1][1].pos2>>
            # <<pret[2][1].key, pret[2][1].pos1, pret[2][1].pos2>>

-----------------------------------------------------------------------------
\* Months and years in relative dates

\* <<year, month>> stepped back n months, one month at a time: the month
\* before January is December of the year before
RECURSIVE MonthsBack(_, _, _)
MonthsBack(y, m, n) ==
    IF n = 0 THEN <<y, m>>
    ELSE IF m = 1 THEN MonthsBack(y - 1, 12, n - 1)
    ELSE MonthsBack(y, m - 1, n - 1)

\* the year and month that the call asks for
TargetMonth ==
    LET d == LocalDate(pcall.now, 0)
    IN  IF pcall.kind = "years back" THEN <<d[1] - pcall.n, d[2]>>
        ELSE MonthsBack(d[1], d[2], pcall.n)

\* C25: N months or N years before now is the UTC date of now moved back N
\* calendar months or years, with the same day of the month and time of day;
\* when the target month has no such day parse_date returns an error.
C25_CalendarBack ==
    (DateReturned /\ pcall.kind \in {"months back", "years back"}) =>
        LET day == LocalDate(pcall.now, 0)[3]
            t == TargetMonth
        IN  IF day <= days_in_month(t[1], t[2])
            THEN /\ pret[1].tag = "Ok"
                 /\ LocalDate(pret[1].val, 0) = <<t[1], t[2], day>>
                 /\ LocalSecond(pret[1].val, 0) = LocalSecond(pcall.now, 0)
            ELSE pret[1].tag = "Err"

\* one month before 2024-03-31T12:00:00Z: there is no February 31
C25_Witness ==
    /\ DateReturned
    /\ pcall.kind = "months back" /\ pcall.n = 1
    /\ LocalDate(pcall.now, 0) = <<2024, 3, 31>>
    /\ pret[1].tag = "Err"


-----------------------------------------------------------------------------
\* Totality of parse_date

\* C28: parse_date is total: every call returns a timestamp or an error, and
\* none aborts, whatever the count of a relative expression.
C28_Total == DateReturned => pret[1].tag \in {"Ok", "Err"}

\* every call aborts or returns, and only a relative expression whose count
\* takes the date out of the range of OffsetDateTime aborts
C28_AbortsOnlyOutOfRange ==
    DateReturned =>
        /\ pret[1].tag \in {"Ok", "Err", "Panic"}
        /\ pret[1].tag = "Panic" => pcall.kind = "huge spans"

=============================================================================
